---- MODULE Spec2Model ----
(***************************************************************************)
(* Model of the filesystem abstraction package:                            *)
(*   - LimitedReadCloser (limited_reader.go), the length-limiting          *)
(*     decorator over a context-aware ReadCloser;                          *)
(*   - the scheme registry and the dispatch facade (support.go, kept as    *)
(*     src/unnamed/part_000).                                              *)
(* Spec          : one caller driving one LimitedReadCloser.               *)
(* SpecRegistry  : one caller driving the registry and the facade.         *)
(* SpecThreads   : several goroutines using the registry concurrently.     *)
(* SpecConcRead  : two goroutines calling Read on one LimitedReadCloser.   *)
(* SpecCompat    : one caller driving the io.ReadCloser / io.WriteCloser   *)
(*                 adapters of ToIoReadCloser and ToIoWriteCloser.         *)
(***************************************************************************)
EXTENDS Integers, Sequences, FiniteSets, TLC

\* ------------------------------------------------------------------ bounds
MaxBudget == 3
MaxBuf == 3
MaxAvail == 4

\* ------------------------------------------------------------ error values
NoErr == "nil"
EOF == "io.EOF"
ErrExpected == "ErrExpected"
EUNSUPP == "EUNSUPP"
ENOFS == "ENOFS"

VARIABLES
    N,            \* LimitedReadCloser.N: the remaining budget
    R,            \* LimitedReadCloser.R: the underlying stream (bytes it still holds)
    initN,        \* history: N as constructed
    initAvail,    \* history: bytes the underlying stream held at construction
    delivered,    \* history: sum of the byte counts returned by Read
    uNegative,    \* history: the underlying Read has reported n < 0
    uOver,        \* history: the underlying Read has reported n > len(p)
    last,         \* the last call on the decorator: arguments, result, calls made on R
    registeredFileSystems,  \* the registry map: scheme -> FileSystem
    latest,       \* history: per scheme, the implementation last passed to AddImplementation
    previous,     \* history: per scheme, the implementation that registration displaced
    fcall,        \* the last call on the registry or the facade, with the backend calls it made
    g,            \* per goroutine: the registry function it is in and the map access it is at
    crashed,      \* the runtime has stopped the program (fatal error: concurrent map access)
    wrapped,      \* the streams behind the io adapters: bytes left to read, bytes written
    acall,        \* the last call on an io adapter, with the calls it made on its stream
    rd,           \* per goroutine: where it is inside LimitedReadCloser.Read, and its locals
    overlapped    \* history: a Read was entered while another goroutine was inside Read

limVars == <<N, R, initN, initAvail, delivered, uNegative, uOver, last>>
regVars == <<registeredFileSystems, latest, previous, fcall>>
seqVars == <<latest, previous, fcall>>
thrVars == <<g, crashed>>
cmpVars == <<wrapped, acall>>
conVars == <<rd, overlapped>>

Min(a, b) == IF a < b THEN a ELSE b
Max(a, b) == IF a > b THEN a ELSE b

\* ------------------------------------------------- the underlying ReadCloser
\* What a Read(ctx, p) of the wrapped stream may report for a buffer of k
\* bytes when the stream still holds avail bytes.  A stream that honours the
\* Read contract reports 0 <= n <= min(k, avail), any error it likes, and
\* end-of-stream only together with its last byte; the interface itself does
\* not stop an implementation from reporting n = -1 or n = k + 1.
UnderlyingRead(avail, k) ==
    LET honest == { [n |-> n, err |-> e] :
                      n \in 0..Min(k, avail), e \in {NoErr, ErrExpected} }
                  \cup { [n |-> n, err |-> EOF] : n \in {avail} \cap (0..k) }
        rogue  == { [n |-> n, err |-> e] :
                      n \in {-1, k + 1}, e \in {NoErr, ErrExpected} }
    IN  honest \cup rogue

\* What Close(ctx) of the wrapped stream may report.
UnderlyingClose == {NoErr, ErrExpected}

\* Bytes the stream really gave up for a reported count n.
Consumed(avail, n) == Min(Max(n, 0), avail)

\* ---------------------------------------------------- LimitedReadCloser.Read
\* if l.N <= 0 { return 0, io.EOF }
\* (variants: the test written as l.N < 0, and as l.N == 0)
ExhaustedStrict(budget) == budget < 0
ExhaustedOnlyZero(budget) == budget = 0
Exhausted(budget) == budget <= 0

\* if int64(len(p)) > l.N { p = p[0:l.N] } : the length of p handed on
\* (variant: the buffer is handed on whole)
PrefixWhole(budget, lenp) == lenp
Prefix(budget, lenp) == IF lenp > budget THEN budget ELSE lenp

\* l.N -= int64(n)
\* (N is an int64 and n an int; the subtraction runs only with N > 0, so it
\* stays inside int64 for every n >= 0 and no wrap-around is modelled)
\* (variants: l.N = int64(n), and l.N += int64(n))
DecrementAssign(budget, n) == n
DecrementAdd(budget, n) == budget + n
Decrement(budget, n) == budget - n

\* return n, err
\* (variant: the error is dropped when bytes were read)
ReadReturnMasked(resp) ==
    [n |-> resp.n, err |-> IF resp.n > 0 THEN NoErr ELSE resp.err]
ReadReturn(resp) == [n |-> resp.n, err |-> resp.err]

NoCall == [op |-> "none", len |-> 0, preN |-> 0, n |-> 0, err |-> NoErr,
           under |-> <<>>]

Read(lenp) ==
    IF Exhausted(N)
    THEN /\ last' = [op |-> "Read", len |-> lenp, preN |-> N, n |-> 0,
                     err |-> EOF, under |-> <<>>]
         /\ UNCHANGED <<N, R, initN, initAvail, delivered, uNegative, uOver>>
    ELSE \E resp \in UnderlyingRead(R, Prefix(N, lenp)) :
            LET k   == Prefix(N, lenp)
                ret == ReadReturn(resp)
            IN  /\ Decrement(N, resp.n) <= MaxBudget
                /\ N' = Decrement(N, resp.n)
                /\ R' = R - Consumed(R, resp.n)
                /\ delivered' = delivered + ret.n
                /\ uNegative' = (uNegative \/ resp.n < 0)
                /\ uOver' = (uOver \/ resp.n > k)
                /\ last' = [op |-> "Read", len |-> lenp, preN |-> N,
                            n |-> ret.n, err |-> ret.err,
                            under |-> << [m |-> "Read", len |-> k,
                                          n |-> resp.n, err |-> resp.err] >>]
                /\ UNCHANGED <<initN, initAvail>>

\* --------------------------------------------------- LimitedReadCloser.Close
\* return l.R.Close(ctx) : the calls Close makes on R, given what R answers
CloseCalls(budget, cerr) == << [m |-> "Close", len |-> 0, n |-> 0, err |-> cerr] >>

\* the error Close returns, given the calls it made on R
\* (variant: the error of R.Close is swallowed)
CloseReturnSwallowed(calls) == NoErr
CloseReturn(calls) == calls[Len(calls)].err

Close ==
    \E cerr \in UnderlyingClose :
        LET calls == CloseCalls(N, cerr)
        IN  /\ last' = [op |-> "Close", len |-> 0, preN |-> N, n |-> 0,
                        err |-> CloseReturn(calls), under |-> calls]
            /\ UNCHANGED <<N, R, initN, initAvail, delivered, uNegative, uOver>>

\* ---------------------------------------------------------------- registry
Schemes == {"file", "mem"}
Paths == {"/a", "/b"}
Contexts == {"ctx1", "ctx2"}
Watchers == {"w1", "w2"}
URLs == [Scheme : Schemes, Path : Paths]

\* The nil FileSystem, and the FileSystem values a caller may register.
NilFS == "nil"
Backends == {"fs1", "fs2"}
FileSystems == Backends \cup {NilFS}
Unset == "unset"

\* registeredFileSystems[scheme] = fs
\* (variants: an existing association is kept; the map is made anew)
AddImplementationKeepFirst(reg, scheme, fs) ==
    IF scheme \in DOMAIN reg THEN reg
    ELSE [s \in (DOMAIN reg) \cup {scheme} |-> IF s = scheme THEN fs ELSE reg[s]]
AddImplementationReset(reg, scheme, fs) == [s \in {scheme} |-> fs]
AddImplementation(reg, scheme, fs) ==
    [s \in (DOMAIN reg) \cup {scheme} |-> IF s = scheme THEN fs ELSE reg[s]]

\* if _, found = registeredFileSystems[fileurl.Scheme]; found { return ... }
\* return nil
GetImplementation(reg, fileurl) ==
    IF fileurl.Scheme \in DOMAIN reg THEN reg[fileurl.Scheme] ELSE NilFS

\* _, found = registeredFileSystems[scheme]; return found
HasImplementation(reg, scheme) == scheme \in DOMAIN reg

\* ---------------------------------------------------------- dispatch facade
DispatchOps == {"OpenReader", "OpenWriter", "OpenAppender", "ListEntries",
                "WatchFile", "Remove"}

\* How many values an operation returns besides its error.
Arity(op) == CASE op = "WatchFile" -> 2
               [] op = "Remove" -> 0
               [] OTHER -> 1

Nils(op) == [i \in 1..Arity(op) |-> "nil"]

\* What a backend's implementation of op may answer: its values with no
\* error, or no values with EUNSUPP or an error of its own.
BackendAnswers(fs, op) ==
    { [vals |-> [i \in 1..Arity(op) |-> <<fs, op, i>>], err |-> NoErr] }
    \cup { [vals |-> Nils(op), err |-> e] : e \in {EUNSUPP, ErrExpected} }

\* The method of the backend each facade function calls.
\* (variant: OpenAppender forwards to the backend's OpenWriter)
BackendOpWriterForAppender(op) == IF op = "OpenAppender" THEN "OpenWriter" ELSE op
BackendOp(op) == op

\* The arguments the facade hands on: ctx, the URL, and for WatchFile the
\* watcher ("none" stands in the other operations, which take no watcher).
Forwarded(op, ctx, fileurl, watcher) ==
    [ctx |-> ctx, url |-> fileurl, watcher |-> watcher]

\* if fs == nil { return nil, ENOFS }
\* (variant: the wrong sentinel)
NotFoundUnsupported(op) == [vals |-> Nils(op), err |-> EUNSUPP]
NotFound(op) == [vals |-> Nils(op), err |-> ENOFS]

\* return fs.Op(ctx, fileurl)
DispatchReturn(answer) == [vals |-> answer.vals, err |-> answer.err]

NoFCall == [op |-> "none", scheme |-> "", args |-> Forwarded("none", "", "", ""),
            fs |-> NilFS, found |-> FALSE, vals |-> <<>>, err |-> NoErr,
            backend |-> <<>>]

CallAddImplementation(scheme, fs) ==
    /\ registeredFileSystems' = AddImplementation(registeredFileSystems, scheme, fs)
    /\ latest' = [latest EXCEPT ![scheme] = fs]
    /\ previous' = [previous EXCEPT ![scheme] = latest[scheme]]
    /\ fcall' = [NoFCall EXCEPT !.op = "AddImplementation", !.scheme = scheme,
                                !.fs = fs]

CallGetImplementation(fileurl) ==
    /\ fcall' = [NoFCall EXCEPT !.op = "GetImplementation",
                                !.scheme = fileurl.Scheme,
                                !.args = Forwarded("none", "", fileurl, ""),
                                !.fs = GetImplementation(registeredFileSystems, fileurl)]
    /\ UNCHANGED <<registeredFileSystems, latest, previous>>

CallHasImplementation(scheme) ==
    /\ fcall' = [NoFCall EXCEPT !.op = "HasImplementation", !.scheme = scheme,
                                !.found = HasImplementation(registeredFileSystems, scheme)]
    /\ UNCHANGED <<registeredFileSystems, latest, previous>>

\* OpenReader, OpenWriter, OpenAppender, ListEntries, WatchFile, Remove
Dispatch(op, ctx, fileurl, watcher) ==
    LET fs   == GetImplementation(registeredFileSystems, fileurl)
        args == Forwarded(op, ctx, fileurl, watcher)
        base == [NoFCall EXCEPT !.op = op, !.scheme = fileurl.Scheme,
                                !.args = [ctx |-> ctx, url |-> fileurl,
                                          watcher |-> watcher],
                                !.fs = fs]
    IN  /\ IF fs = NilFS
           THEN fcall' = [base EXCEPT !.vals = NotFound(op).vals,
                                      !.err = NotFound(op).err]
           ELSE \E answer \in BackendAnswers(fs, BackendOp(op)) :
                    fcall' = [base EXCEPT
                                !.vals = DispatchReturn(answer).vals,
                                !.err = DispatchReturn(answer).err,
                                !.backend = << [fs |-> fs, op |-> BackendOp(op),
                                                args |-> args,
                                                vals |-> answer.vals,
                                                err |-> answer.err] >>]
        /\ UNCHANGED <<registeredFileSystems, latest, previous>>

\* ------------------------------------------- the registry used by goroutines
\* The registry functions take no lock: each access to the map (the write at
\* AddImplementation, the reads at GetImplementation and HasImplementation)
\* starts and ends as separate steps of its goroutine, with nothing between
\* them that keeps another goroutine out.
Goroutines == {"g1", "g2"}

Idle == [at |-> "idle", op |-> "none", scheme |-> "", fs |-> NilFS,
         found |-> FALSE, err |-> NoErr, raced |-> FALSE]

Writing(st) == st.at = "write97"
Reading(st) == st.at \in {"read110", "read111", "read125"}

\* Two map accesses of different goroutines overlap and one is a write.
Conflict(a, b) ==
    \/ Writing(a) /\ (Writing(b) \/ Reading(b))
    \/ Reading(a) /\ Writing(b)

RaceState == \E t, u \in Goroutines : t # u /\ Conflict(g[t], g[u])

\* Each access that now overlaps a conflicting one is marked.
Mark(gn) ==
    [t \in Goroutines |->
        [gn[t] EXCEPT !.raced =
            @ \/ \E u \in Goroutines \ {t} : Conflict(gn[t], gn[u])]]

\* AddImplementation: the map write starts ...
BeginAdd(t, scheme, fs) ==
    /\ ~crashed /\ g[t].at = "idle"
    /\ g' = Mark([g EXCEPT ![t] = [Idle EXCEPT !.at = "write97",
                    !.op = "AddImplementation", !.scheme = scheme, !.fs = fs]])
    /\ UNCHANGED <<registeredFileSystems, crashed>>

\* ... and ends.  A write that raced may have been lost.
EndAdd(t) ==
    /\ ~crashed /\ g[t].at = "write97"
    /\ registeredFileSystems' \in
          {AddImplementation(registeredFileSystems, g[t].scheme, g[t].fs)}
          \cup (IF g[t].raced THEN {registeredFileSystems} ELSE {})
    /\ g' = [g EXCEPT ![t] = [@ EXCEPT !.at = "idle", !.raced = FALSE]]
    /\ UNCHANGED crashed

\* HasImplementation: the map read starts ...
BeginHas(t, scheme) ==
    /\ ~crashed /\ g[t].at = "idle"
    /\ g' = Mark([g EXCEPT ![t] = [Idle EXCEPT !.at = "read125",
                    !.op = "HasImplementation", !.scheme = scheme]])
    /\ UNCHANGED <<registeredFileSystems, crashed>>

\* ... and ends.  A read that raced may have seen anything.
EndHas(t) ==
    /\ ~crashed /\ g[t].at = "read125"
    /\ \E found \in (IF g[t].raced THEN BOOLEAN
                     ELSE {HasImplementation(registeredFileSystems, g[t].scheme)}) :
          g' = [g EXCEPT ![t] = [@ EXCEPT !.at = "idle", !.found = found,
                                          !.raced = FALSE]]
    /\ UNCHANGED <<registeredFileSystems, crashed>>

\* GetImplementation, called directly or by a dispatch operation: the first
\* map read (the found test) starts ...
BeginGet(t, op, scheme) ==
    /\ ~crashed /\ g[t].at = "idle"
    /\ g' = Mark([g EXCEPT ![t] = [Idle EXCEPT !.at = "read110", !.op = op,
                                               !.scheme = scheme]])
    /\ UNCHANGED <<registeredFileSystems, crashed>>

\* ... ends, and when the key was found the second read (the return) starts;
\* otherwise nil is returned, which a dispatch operation turns into ENOFS.
EndFoundTest(t) ==
    /\ ~crashed /\ g[t].at = "read110"
    /\ \E found \in (IF g[t].raced THEN BOOLEAN
                     ELSE {g[t].scheme \in DOMAIN registeredFileSystems}) :
          IF found
          THEN g' = Mark([g EXCEPT ![t] = [@ EXCEPT !.at = "read111",
                                                    !.found = TRUE, !.raced = FALSE]])
          ELSE g' = [g EXCEPT ![t] = [@ EXCEPT !.at = "idle", !.fs = NilFS,
                        !.raced = FALSE,
                        !.err = IF g[t].op \in DispatchOps THEN ENOFS ELSE NoErr]]
    /\ UNCHANGED <<registeredFileSystems, crashed>>

\* The second read ends: the value under the key (nil when there is none).
EndGet(t) ==
    /\ ~crashed /\ g[t].at = "read111"
    /\ \E fs \in (IF g[t].raced THEN FileSystems
                  ELSE {GetImplementation(registeredFileSystems,
                                          [Scheme |-> g[t].scheme])}) :
          g' = [g EXCEPT ![t] = [@ EXCEPT !.at = "idle", !.fs = fs, !.raced = FALSE,
                    !.err = IF g[t].op \in DispatchOps /\ fs = NilFS
                            THEN ENOFS ELSE NoErr]]
    /\ UNCHANGED <<registeredFileSystems, crashed>>

\* The runtime notices the concurrent map access and stops the program.
Crash ==
    /\ ~crashed /\ RaceState
    /\ crashed' = TRUE
    /\ UNCHANGED <<registeredFileSystems, g>>

\* -------------------------------------------------------------- io adapters
BackgroundCtx == "context.Background()"
DeadlineExceeded == "context.DeadlineExceeded"

\* ToIoReadCloser / ToIoWriteCloser: the adapter holds the stream, nothing else.
ToIoReadCloser(rc) == [readCloser |-> rc]
ToIoWriteCloser(wc) == [writeCloser |-> wc]

\* var ctx = context.Background()
\* (variant: a context that carries a deadline)
CompatContextWithTimeout == "context.WithTimeout()"
CompatContext == BackgroundCtx

\* What the wrapped ReadCloser may answer to Read(ctx, p), len(p) = k, with
\* avail bytes left; only a context other than the background one can expire.
WrappedRead(avail, k, ctx) ==
    { [n |-> n, err |-> e] : n \in 0..Min(k, avail), e \in {NoErr, ErrExpected} }
    \cup { [n |-> n, err |-> EOF] : n \in {avail} \cap (0..k) }
    \cup (IF ctx = BackgroundCtx THEN {} ELSE {[n |-> 0, err |-> DeadlineExceeded]})

\* What the wrapped WriteCloser may answer to Write(ctx, p), len(p) = k.
WrappedWrite(k, ctx) ==
    { [n |-> k, err |-> NoErr] }
    \cup { [n |-> n, err |-> ErrExpected] : n \in 0..k }
    \cup (IF ctx = BackgroundCtx THEN {} ELSE {[n |-> 0, err |-> DeadlineExceeded]})

\* What either wrapped stream may answer to Close(ctx).
WrappedClose(ctx) ==
    { [n |-> 0, err |-> e] : e \in {NoErr, ErrExpected} }
    \cup (IF ctx = BackgroundCtx THEN {} ELSE {[n |-> 0, err |-> DeadlineExceeded]})

\* The answers of method m of stream obj in state w.
WrappedAnswers(w, obj, m, k, ctx) ==
    CASE m = "Read" -> WrappedRead(w.r, k, ctx)
      [] m = "Write" -> WrappedWrite(k, ctx)
      [] OTHER -> WrappedClose(ctx)

\* The state of the wrapped streams after method m of obj answered n.
WrappedAfter(w, obj, m, n) ==
    CASE m = "Read" -> [w EXCEPT !.r = @ - n]
      [] m = "Write" -> [w EXCEPT !.w = @ + n]
      [] OTHER -> w

\* return rc.readCloser.Read(ctx, p), and the three methods like it: the
\* method called on the wrapped stream, its context and its buffer
\* (variant: Write hands on an empty buffer)
CompatForwardEmptyWrite(m, lenp) ==
    [m |-> m, ctx |-> CompatContext, len |-> IF m = "Write" THEN 0 ELSE lenp]
CompatForward(m, lenp) == [m |-> m, ctx |-> CompatContext, len |-> lenp]

\* ... and what the adapter returns of the answer
CompatReturn(answer) == [n |-> answer.n, err |-> answer.err]

NoACall == [obj |-> "none", op |-> "none", len |-> 0, n |-> 0, err |-> NoErr,
            under |-> <<>>]

\* ioCompatReadCloser.Read, ioCompatReadCloser.Close (obj = "rc");
\* ioCompatWriteCloser.Write, ioCompatWriteCloser.Close (obj = "wc")
CompatCall(obj, m, lenp) ==
    LET fwd == CompatForward(m, lenp)
    IN  \E answer \in WrappedAnswers(wrapped, obj, fwd.m, fwd.len, fwd.ctx) :
            /\ (fwd.m = "Write" => wrapped.w + answer.n <= MaxAvail)
            /\ wrapped' = WrappedAfter(wrapped, obj, fwd.m, answer.n)
            /\ acall' = [obj |-> obj, op |-> m, len |-> lenp,
                         n |-> CompatReturn(answer).n,
                         err |-> CompatReturn(answer).err,
                         under |-> << [obj |-> obj, m |-> fwd.m, ctx |-> fwd.ctx,
                                       len |-> fwd.len, n |-> answer.n,
                                       err |-> answer.err] >>]

ReadAdapter == ToIoReadCloser("rc")
WriteAdapter == ToIoWriteCloser("wc")

\* ------------------------------- LimitedReadCloser.Read called by goroutines
\* Read takes no lock: the test of l.N, the truncation of p, the call on R
\* and the two halves of l.N -= int64(n) (load, store) are separate steps of
\* the calling goroutine.  R is taken to honour the Read contract and to be
\* safe for concurrent use itself.  A goroutine keeps nothing of a call
\* once it has returned.
RdIdle == [pc |-> "idle", len |-> 0, k |-> 0, n |-> 0, err |-> NoErr, tmp |-> 0]

HonestRead(avail, k) ==
    { a \in UnderlyingRead(avail, k) : 0 <= a.n /\ a.n <= k }

Running == \A t \in Goroutines : rd[t].pc # "panic"

\* if l.N <= 0 { return 0, io.EOF }
RdCheck(t, lenp) ==
    /\ Running /\ rd[t].pc = "idle"
    /\ rd' = [rd EXCEPT ![t] =
                IF Exhausted(N)
                THEN RdIdle
                ELSE [RdIdle EXCEPT !.pc = "truncate", !.len = lenp]]
    /\ overlapped' = (overlapped \/ \E u \in Goroutines \ {t} : rd[u].pc # "idle")
    /\ UNCHANGED <<N, R, delivered>>

\* if int64(len(p)) > l.N { p = p[0:l.N] }  (a negative bound panics)
RdTruncate(t) ==
    /\ Running /\ rd[t].pc = "truncate"
    /\ rd' = [rd EXCEPT ![t] =
                IF Prefix(N, rd[t].len) < 0
                THEN [@ EXCEPT !.pc = "panic"]
                ELSE [@ EXCEPT !.pc = "delegate", !.k = Prefix(N, rd[t].len)]]
    /\ UNCHANGED <<N, R, delivered, overlapped>>

\* n, err = l.R.Read(ctx, p)
RdDelegate(t) ==
    /\ Running /\ rd[t].pc = "delegate"
    /\ \E resp \in HonestRead(R, rd[t].k) :
          /\ R' = R - Consumed(R, resp.n)
          /\ rd' = [rd EXCEPT ![t] = [@ EXCEPT !.pc = "load", !.n = resp.n,
                                               !.err = resp.err]]
    /\ UNCHANGED <<N, delivered, overlapped>>

\* l.N -= int64(n): the load of l.N ...
RdLoad(t) ==
    /\ Running /\ rd[t].pc = "load"
    /\ rd' = [rd EXCEPT ![t] = [@ EXCEPT !.pc = "store", !.tmp = N]]
    /\ UNCHANGED <<N, R, delivered, overlapped>>

\* ... the store, and return n, err
RdStore(t) ==
    /\ Running /\ rd[t].pc = "store"
    /\ N' = Decrement(rd[t].tmp, rd[t].n)
    /\ delivered' = delivered + ReadReturn(rd[t]).n
    /\ rd' = [rd EXCEPT ![t] = RdIdle]
    /\ UNCHANGED <<R, overlapped>>

\* ------------------------------------------------------------ specification
Init ==
    /\ initN \in -1..MaxBudget
    /\ initAvail \in 0..MaxAvail
    /\ N = initN
    /\ R = initAvail
    /\ delivered = 0
    /\ uNegative = FALSE
    /\ uOver = FALSE
    /\ last = NoCall
    /\ registeredFileSystems = << >>
    /\ latest = [s \in Schemes |-> Unset]
    /\ previous = [s \in Schemes |-> Unset]
    /\ fcall = NoFCall
    /\ g = [t \in Goroutines |-> Idle]
    /\ crashed = FALSE
    /\ wrapped = [r |-> MaxAvail, w |-> 0]
    /\ acall = NoACall
    /\ rd = [t \in Goroutines |-> RdIdle]
    /\ overlapped = FALSE

vars == <<limVars, regVars, thrVars, cmpVars, conVars>>

\* One caller using one LimitedReadCloser.
Next ==
    \/ \E lenp \in 0..MaxBuf : Read(lenp) /\ UNCHANGED <<regVars, thrVars, cmpVars, conVars>>
    \/ Close /\ UNCHANGED <<regVars, thrVars, cmpVars, conVars>>

Spec == Init /\ [][Next]_vars

\* One caller using the registry and the facade.
NextRegistry ==
    \/ \E s \in Schemes, fs \in FileSystems :
          CallAddImplementation(s, fs) /\ UNCHANGED <<limVars, thrVars, cmpVars, conVars>>
    \/ \E u \in URLs : CallGetImplementation(u) /\ UNCHANGED <<limVars, thrVars, cmpVars, conVars>>
    \/ \E s \in Schemes : CallHasImplementation(s) /\ UNCHANGED <<limVars, thrVars, cmpVars, conVars>>
    \/ \E op \in DispatchOps, ctx \in Contexts, u \in URLs :
          \E w \in (IF op = "WatchFile" THEN Watchers ELSE {"none"}) :
              Dispatch(op, ctx, u, w) /\ UNCHANGED <<limVars, thrVars, cmpVars, conVars>>

\* No LimitedReadCloser is in use while the registry is exercised.
InitRegistry == Init /\ initN = 0 /\ initAvail = 0

SpecRegistry == InitRegistry /\ [][NextRegistry]_vars

\* Goroutines using the registry with nothing ordering them.
NextThreads ==
    \/ \E t \in Goroutines, s \in Schemes, fs \in Backends :
          BeginAdd(t, s, fs) /\ UNCHANGED <<limVars, seqVars, cmpVars, conVars>>
    \/ \E t \in Goroutines : EndAdd(t) /\ UNCHANGED <<limVars, seqVars, cmpVars, conVars>>
    \/ \E t \in Goroutines, s \in Schemes :
          BeginHas(t, s) /\ UNCHANGED <<limVars, seqVars, cmpVars, conVars>>
    \/ \E t \in Goroutines : EndHas(t) /\ UNCHANGED <<limVars, seqVars, cmpVars, conVars>>
    \/ \E t \in Goroutines, op \in {"GetImplementation", "OpenReader"}, s \in Schemes :
          BeginGet(t, op, s) /\ UNCHANGED <<limVars, seqVars, cmpVars, conVars>>
    \/ \E t \in Goroutines : EndFoundTest(t) /\ UNCHANGED <<limVars, seqVars, cmpVars, conVars>>
    \/ \E t \in Goroutines : EndGet(t) /\ UNCHANGED <<limVars, seqVars, cmpVars, conVars>>
    \/ Crash /\ UNCHANGED <<limVars, seqVars, cmpVars, conVars>>

SpecThreads == InitRegistry /\ [][NextThreads]_vars

\* Two goroutines calling Read on the same LimitedReadCloser.
conFrame == <<initN, initAvail, uNegative, uOver, last, regVars, thrVars, cmpVars>>

NextConcRead ==
    \/ \E t \in Goroutines, lenp \in 0..MaxBuf :
          RdCheck(t, lenp) /\ UNCHANGED conFrame
    \/ \E t \in Goroutines : RdTruncate(t) /\ UNCHANGED conFrame
    \/ \E t \in Goroutines : RdDelegate(t) /\ UNCHANGED conFrame
    \/ \E t \in Goroutines : RdLoad(t) /\ UNCHANGED conFrame
    \/ \E t \in Goroutines : RdStore(t) /\ UNCHANGED conFrame

SpecConcRead == Init /\ [][NextConcRead]_vars

\* One caller using the two io adapters.
NextCompat ==
    \/ \E lenp \in 0..MaxBuf :
          CompatCall(ReadAdapter.readCloser, "Read", lenp)
          /\ UNCHANGED <<limVars, regVars, thrVars, conVars>>
    \/ CompatCall(ReadAdapter.readCloser, "Close", 0)
          /\ UNCHANGED <<limVars, regVars, thrVars, conVars>>
    \/ \E lenp \in 0..MaxBuf :
          CompatCall(WriteAdapter.writeCloser, "Write", lenp)
          /\ UNCHANGED <<limVars, regVars, thrVars, conVars>>
    \/ CompatCall(WriteAdapter.writeCloser, "Close", 0)
          /\ UNCHANGED <<limVars, regVars, thrVars, conVars>>

SpecCompat == InitRegistry /\ [][NextCompat]_vars

\* ====================================================== LimitedReadCloser
\* The wrapped stream has honoured the Read contract so far.
Honest == ~uNegative /\ ~uOver

\* The byte count the decorator had delivered when the last call started.
DeliveredBefore == delivered - last.n

\* C1: with a budget N >= 0 over a stream holding at least N bytes, the
\* bytes returned by all reads up to an end-of-stream add up to exactly N,
\* and the read issued once N bytes are out returns (0, io.EOF).
C1_ExactlyBudgetThenEOF ==
    (initN >= 0 /\ initAvail >= initN /\ Honest /\ last.op = "Read") =>
        /\ (last.err = EOF => delivered = initN)
        /\ (DeliveredBefore = initN => last.n = 0 /\ last.err = EOF)

C1_Witness ==
    /\ initN = MaxBudget /\ initAvail >= initN /\ Honest
    /\ last.op = "Read" /\ last.n = 0 /\ last.err = EOF
    /\ delivered = initN /\ last.len > 0

\* C2: budget invariant: over a stream that reports 0 <= n <= len(p), the
\* remaining budget is the initial budget minus the bytes delivered, is never
\* negative, and the bytes delivered never exceed the initial budget.
C2_BudgetInvariant ==
    (initN >= 0 /\ Honest) =>
        /\ N = initN - delivered
        /\ N >= 0
        /\ delivered <= initN

C2_Witness ==
    /\ initN = MaxBudget /\ Honest
    /\ last.op = "Close" /\ delivered > 0 /\ N > 0

\* C7: a Read that starts with a remaining budget <= 0 returns (0, io.EOF),
\* makes no call on the wrapped stream and leaves the budget as it was.
C7_ExhaustedReadIsEOF ==
    (last.op = "Read" /\ last.preN <= 0) =>
        /\ last.n = 0
        /\ last.err = EOF
        /\ last.under = <<>>
        /\ N = last.preN

C7_Witness ==
    /\ initN = 0 /\ delivered = 0 /\ R = initAvail
    /\ last.op = "Read" /\ last.preN = 0 /\ last.len > 0

\* C8: a Read with budget left hands the wrapped stream the prefix of the
\* buffer of length min(len(p), remaining budget), so a stream that fills no
\* more than it is given makes the call return at most the remaining budget.
C8_PrefixOnly ==
    (last.op = "Read" /\ last.preN > 0) =>
        /\ Len(last.under) = 1
        /\ last.under[1].m = "Read"
        /\ last.under[1].len = Min(last.len, last.preN)
        /\ (last.under[1].n <= last.under[1].len => last.n <= last.preN)

C8_Witness ==
    /\ last.op = "Read" /\ last.preN > 0 /\ last.len > last.preN
    /\ last.under[1].len = last.preN /\ last.n = last.preN

\* C9: a Read with budget left returns exactly the (n, err) the wrapped
\* stream's Read returned, whatever the error, and takes exactly n off the
\* budget.
C9_ForwardsReadResult ==
    (last.op = "Read" /\ last.preN > 0) =>
        /\ Len(last.under) = 1
        /\ last.n = last.under[1].n
        /\ last.err = last.under[1].err
        /\ N = last.preN - last.under[1].n

C9_Witness ==
    /\ last.op = "Read" /\ last.preN > 0
    /\ last.err = ErrExpected /\ last.n > 0 /\ N = last.preN - last.n

\* C10: Close makes exactly one call on the wrapped stream, its Close,
\* whatever the remaining budget, returns what that call returned and leaves
\* the budget as it was.
C10_CloseDelegates ==
    (last.op = "Close") =>
        /\ Len(last.under) = 1
        /\ last.under[1].m = "Close"
        /\ last.err = last.under[1].err
        /\ N = last.preN

C10_Witness ==
    /\ last.op = "Close" /\ last.err = ErrExpected
    /\ initN > 0 /\ N = 0

\* The last call was a Read in which the wrapped stream delivered exactly
\* the budget that was left.
ExhaustingRead ==
    /\ last.op = "Read" /\ last.preN > 0
    /\ Len(last.under) = 1 /\ last.under[1].n = last.preN

\* C11 as stated: a Read that exactly exhausts the budget returns that many
\* bytes and no error.
C11_ExhaustingReadHasNoError ==
    ExhaustingRead => (last.n = last.preN /\ last.err = NoErr)

\* C11 as amended: a Read that exactly exhausts the budget returns that
\* many bytes with the error the wrapped stream reported for them, so with
\* no error when the wrapped stream reported none (the decorator adds no
\* end-of-stream of its own to that call), and leaves the budget at 0; a
\* Read that follows it returns (0, io.EOF) without a call on the wrapped
\* stream.
C11_ExhaustingReadThenEOF ==
    /\ [](ExhaustingRead =>
            /\ last.n = last.preN
            /\ last.err = last.under[1].err
            /\ (last.under[1].err = NoErr => last.err = NoErr)
            /\ N = 0)
    /\ [][(ExhaustingRead /\ last'.op = "Read" /\ last' # last) =>
            (last'.n = 0 /\ last'.err = EOF /\ last'.under = <<>>)]_vars

C11_Witness ==
    /\ ExhaustingRead /\ last.err = NoErr /\ last.n = last.preN
    /\ last.len > last.preN /\ N = 0 /\ initN = MaxBudget

\* C14: over a wrapped stream that never reports a negative count the
\* remaining budget never increases; once it is <= 0 it stays as it is, the
\* wrapped stream is left alone and every Read returns (0, io.EOF).
C14_ExhaustionIsAbsorbing ==
    [][/\ (~uNegative' => N' <= N)
       /\ (N <= 0 =>
             /\ N' = N /\ R' = R /\ delivered' = delivered
             /\ (last'.op = "Read" /\ last' # last) =>
                    (last'.n = 0 /\ last'.err = EOF /\ last'.under = <<>>))]_vars

C14_Witness ==
    /\ initN > 0 /\ ~uNegative /\ delivered >= initN
    /\ last.op = "Read" /\ last.preN <= 0 /\ last.err = EOF
    /\ last.under = <<>>

\* ================================================ registry and dispatch facade
\* C3: a dispatch operation on a URL whose scheme is not in the registry
\* returns ENOFS, nil for every other result, and calls no backend.
C3_UnregisteredSchemeIsENOFS ==
    (fcall.op \in DispatchOps /\ fcall.scheme \notin DOMAIN registeredFileSystems) =>
        /\ fcall.err = ENOFS
        /\ fcall.vals = Nils(fcall.op)
        /\ fcall.backend = <<>>

C3_Witness ==
    /\ fcall.op = "WatchFile" /\ fcall.scheme = "mem"
    /\ DOMAIN registeredFileSystems = {"file"}
    /\ registeredFileSystems["file"] = "fs1"
    /\ fcall.err = ENOFS

\* C4: once a scheme has been registered again, the registry holds the
\* implementation registered last under it (one association per registered
\* scheme), GetImplementation returns that one, and a dispatch operation on
\* the scheme calls no other implementation.
C4_LastRegistrationWins ==
    /\ DOMAIN registeredFileSystems = {s \in Schemes : latest[s] # Unset}
    /\ \A s \in DOMAIN registeredFileSystems : registeredFileSystems[s] = latest[s]
    /\ (fcall.op = "GetImplementation" /\ latest[fcall.scheme] # Unset) =>
           fcall.fs = latest[fcall.scheme]
    /\ (fcall.op \in DispatchOps /\ latest[fcall.scheme] # Unset) =>
           \A i \in 1..Len(fcall.backend) :
               fcall.backend[i].fs = latest[fcall.scheme]

C4_Witness ==
    /\ previous["file"] = "fs1" /\ latest["file"] = "fs2"
    /\ fcall.op \in DispatchOps /\ fcall.scheme = "file"
    /\ Len(fcall.backend) = 1 /\ fcall.backend[1].fs = "fs2"

\* C6: a dispatch operation on a URL whose scheme is registered with an
\* implementation calls exactly once the operation of the same name on that
\* implementation, with the caller's context, URL and watcher, and returns its
\* values and error unchanged; ENOFS is not produced.
C6_ForwardsToBackend ==
    (/\ fcall.op \in DispatchOps
     /\ fcall.scheme \in DOMAIN registeredFileSystems
     /\ registeredFileSystems[fcall.scheme] # NilFS) =>
        /\ Len(fcall.backend) = 1
        /\ fcall.backend[1].fs = registeredFileSystems[fcall.scheme]
        /\ fcall.backend[1].op = fcall.op
        /\ fcall.backend[1].args = fcall.args
        /\ fcall.vals = fcall.backend[1].vals
        /\ fcall.err = fcall.backend[1].err
        /\ fcall.err # ENOFS

C6_Witness ==
    /\ fcall.op = "OpenAppender" /\ fcall.scheme = "mem"
    /\ "mem" \in DOMAIN registeredFileSystems
    /\ registeredFileSystems["mem"] = "fs2"
    /\ Len(fcall.backend) = 1 /\ fcall.backend[1].op = "OpenAppender"
    /\ fcall.err = ErrExpected

\* C13: HasImplementation(s) is true exactly when GetImplementation for a
\* URL of scheme s returns an implementation (not nil), and exactly when a
\* dispatch operation for scheme s does not return ENOFS.
C13_HasAgreesWithDispatch ==
    /\ \A u \in URLs :
          HasImplementation(registeredFileSystems, u.Scheme)
             <=> (GetImplementation(registeredFileSystems, u) # NilFS)
    /\ (fcall.op = "HasImplementation") =>
          (fcall.found <=> \A u \in URLs : u.Scheme = fcall.scheme =>
                              GetImplementation(registeredFileSystems, u) # NilFS)
    /\ (fcall.op \in DispatchOps) =>
          (fcall.err # ENOFS
             <=> HasImplementation(registeredFileSystems, fcall.scheme))

\* C15: the registry starts empty; GetImplementation, HasImplementation and
\* the dispatch operations leave it as it is, whatever they return;
\* AddImplementation(s, fs) changes the association of s alone; no step
\* removes a key, so HasImplementation(s) once true stays true.
C15_RegistryFrame ==
    /\ (fcall = NoFCall => registeredFileSystems = << >>)
    /\ [][/\ (fcall'.op # "AddImplementation" =>
                registeredFileSystems' = registeredFileSystems)
           /\ (fcall'.op = "AddImplementation" =>
                /\ fcall'.scheme \in DOMAIN registeredFileSystems'
                /\ registeredFileSystems'[fcall'.scheme] = fcall'.fs
                /\ \A s \in Schemes \ {fcall'.scheme} :
                      /\ (s \in DOMAIN registeredFileSystems'
                            <=> s \in DOMAIN registeredFileSystems)
                      /\ (s \in DOMAIN registeredFileSystems =>
                            registeredFileSystems'[s] = registeredFileSystems[s]))
           /\ \A s \in Schemes :
                 HasImplementation(registeredFileSystems, s) =>
                    HasImplementation(registeredFileSystems', s)]_vars

C15_Witness ==
    /\ DOMAIN registeredFileSystems = Schemes
    /\ registeredFileSystems["file"] = "fs1"
    /\ registeredFileSystems["mem"] = "fs2"
    /\ previous["mem"] = "fs1"
    /\ fcall.op = "Remove" /\ fcall.err = ErrExpected

\* ========================================================== concurrent use
\* C5: no interleaving of AddImplementation with another registry function
\* reaches two overlapping accesses to the registry map of which one is a
\* write.
C5_NoUnsynchronizedMapAccess == ~RaceState

\* ============================================================== io adapters
\* C12: every Read, Write or Close on an adapter makes exactly one call, to
\* the same method of the wrapped stream, with the same buffer and the
\* background context, and returns its count and error unchanged; and each
\* such step is one the wrapped stream itself could take when called with a
\* background context: same answer, same effect on the stream.
C12_AdapterForwards ==
    /\ [](acall.op # "none" =>
            /\ Len(acall.under) = 1
            /\ acall.under[1].obj = acall.obj
            /\ acall.under[1].m = acall.op
            /\ acall.under[1].len = acall.len
            /\ acall.under[1].ctx = BackgroundCtx
            /\ acall.n = acall.under[1].n
            /\ acall.err = acall.under[1].err)
    /\ [][acall' # acall =>
            \E answer \in WrappedAnswers(wrapped, acall'.obj, acall'.op,
                                         acall'.len, BackgroundCtx) :
                /\ acall'.n = answer.n
                /\ acall'.err = answer.err
                /\ wrapped' = WrappedAfter(wrapped, acall'.obj, acall'.op,
                                           answer.n)]_vars

C12_Witness ==
    /\ acall.obj = "wc" /\ acall.op = "Write" /\ acall.len = MaxBuf
    /\ acall.err = ErrExpected /\ acall.n > 0 /\ acall.n < acall.len
    /\ wrapped.r < MaxAvail /\ wrapped.w > acall.n

\* ===================================== LimitedReadCloser used by goroutines
\* C16: the bound "bytes delivered <= N, budget >= 0" holds as long as no
\* Read was entered while another was under way; with two Reads interleaved
\* the decorator can deliver more than N and leave a negative budget (the
\* state of C16_Witness).
C16_BoundOnlyWithoutInterleaving ==
    (initN >= 0 /\ ~overlapped) => (delivered <= initN /\ N >= 0)

C16_Witness ==
    /\ initN > 0 /\ overlapped
    /\ \A t \in Goroutines : rd[t].pc = "idle"
    /\ delivered > initN /\ N < 0

====
